---- MODULE Spec2Model ----
(***************************************************************************)
(* Resource orchestration core of the mcp-playwright server:               *)
(*   - BrowserManager (playwright-mcp/src/index.ts): pool of browser       *)
(*     engines keyed by `${type}-${headless}`;                             *)
(*   - WebcamManager (src/webcam-tools.ts): registry device -> ffmpeg      *)
(*     encoder process;                                                    *)
(*   - the CallToolRequestSchema handler that dispatches tool calls;       *)
(*   - the SIGINT/SIGTERM shutdown hook.                                   *)
(* The server is a single Node.js process: a handler runs without          *)
(* interruption up to its next `await`; every action below is one such     *)
(* run-to-suspension segment.  Each tool call c launches at most one       *)
(* engine, opens at most one context and spawns at most one encoder; they  *)
(* are identified by the number c of the call that created them.           *)
(***************************************************************************)
EXTENDS Integers, Sequences, FiniteSets, TLC

\* Number of tool calls dispatched in one run of the server.
MaxCalls == 2

\* Number of page calls in the runs where every call asks for the same key.
MaxSameKeyCalls == 3

Calls == 1..(IF MaxCalls > MaxSameKeyCalls THEN MaxCalls ELSE MaxSameKeyCalls)

\* Map.get() of an absent key (undefined), for both maps.
None == 0

EngineTypes == {"chromium", "firefox", "webkit"}
\* The browser and headless fields of the page requests of a run ("" stands
\* for an absent field).
InputConfigs == {<<"", "">>, <<"firefox", "">>, <<"", "false">>}

\* browser: z.enum([...]).optional().default('chromium')
ParseBrowser(b) == IF b = "" THEN "chromium" ELSE b

\* headless: z.boolean().optional().default(true)
ParseHeadless(h) == IF h = "" THEN TRUE ELSE h = "true"

DefaultDevice == "/dev/video20"
\* args.device of the webcam requests of a run ("" stands for an absent field).
InputDevices == {"", "/dev/video21"}

Modes == {"image", "video", "pattern", "color", "screen", "text"}
\* args.mode of the start_webcam requests of a run.
InputModes == {"color", "text", "hologram"}

\* the page tools all follow the protocol of navigate_to_page
PageTools == {"navigate_to_page"}

\* key = `${type}-${headless}`
KeyOf(type, headless) == <<type, headless>>

Keys == {KeyOf(t, h) : t \in EngineTypes, h \in BOOLEAN}

\* params.device || '/dev/video20'
DeviceOf(device) == IF device = "" THEN DefaultDevice ELSE device

Devices == {DeviceOf(d) : d \in InputDevices}

VARIABLES
    calls,            \* call -> the request, its position and its locals
    browsers,         \* BrowserManager.browsers: key -> engine (None if absent)
    browserOrder,     \* insertion order of the keys of BrowserManager.browsers
    engines,          \* the engine launched by each call
    contexts,         \* the browser context opened by each call
    ffmpegProcesses,  \* WebcamManager.ffmpegProcesses: device -> process
    procs,            \* the encoder process spawned by each call
    hook              \* the shutdown hook

vars == <<calls, browsers, browserOrder, engines, contexts, ffmpegProcesses,
          procs, hook>>

\* WebcamStatus before getStatus has filled it in
NoStatus == [exists |-> FALSE, streaming |-> FALSE, mode |-> ""]

\* the arguments of a call whose fields are not followed one by one
NoArgs == [given |-> FALSE, url |-> "", browser |-> "", headless |-> "",
           waitUntil |-> ""]

\* ext is the answer of the external command the call awaited last ("ok",
\* "fails", or "" when it awaited none); args and message are the raw
\* arguments and the field list of the InvalidParams error of a call whose
\* arguments are followed field by field; devices is the list returned by
\* listDevices.
IdleCall == [tool |-> "", valid |-> TRUE, type |-> "", headless |-> TRUE,
             device |-> "", mode |-> "", pc |-> "idle", browser |-> None,
             context |-> None, process |-> None, result |-> "",
             status |-> NoStatus, ext |-> "", args |-> NoArgs, message |-> <<>>,
             devices |-> <<>>]

NoEngine == [type |-> "", headless |-> TRUE, state |-> "unborn"]
NoContext == [engine |-> None, state |-> "unborn"]
NoProcess == [device |-> "", state |-> "unborn", killed |-> FALSE]

Init ==
    /\ calls = [c \in Calls |-> IdleCall]
    /\ browsers = [k \in Keys |-> None]
    /\ browserOrder = <<>>
    /\ engines = [c \in Calls |-> NoEngine]
    /\ contexts = [c \in Calls |-> NoContext]
    /\ ffmpegProcesses = [d \in Devices |-> None]
    /\ procs = [c \in Calls |-> NoProcess]
    /\ hook = [pc |-> "idle", closing |-> None, idx |-> 0]

\* The Node.js process is running (process.exit has not been called and no
\* exception went uncaught).
Running == hook.pc \in {"idle", "closing"}

\* Requests are numbered in arrival order; n of them arrive in a run.
CanArriveWithin(c, n) ==
    /\ Running
    /\ c <= n
    /\ calls[c].pc = "idle"
    /\ \A b \in Calls : b < c => calls[b].pc # "idle"

CanArrive(c) == CanArriveWithin(c, MaxCalls)

----
(* WebcamManager *)

\* a kill that delivers no signal
KillNothing(ps, p) == ps

\* ChildProcess.kill('SIGTERM'): the signal is delivered (and .killed set)
\* only while the process has not exited.
Kill(ps, p) ==
    IF ps[p].state = "alive" THEN [ps EXCEPT ![p].killed = TRUE] ELSE ps

\* a stopWebcam that signals every recorded process
stopWebcamProcsAll(reg, ps, device) ==
    [p \in Calls |->
        IF \E d \in DOMAIN reg : reg[d] = p THEN Kill(ps, p)[p] ELSE ps[p]]

\* stopWebcam(device), its effect on the processes
stopWebcamProcs(reg, ps, device) ==
    IF reg[device] # None THEN Kill(ps, reg[device]) ELSE ps

\* stopWebcam that ignores its argument and stops the default device
stopWebcamRegDefault(reg, device) ==
    IF reg[DefaultDevice] # None THEN [reg EXCEPT ![DefaultDevice] = None] ELSE reg

\* stopWebcam(device), its effect on the registry
stopWebcamReg(reg, device) ==
    IF reg[device] # None THEN [reg EXCEPT ![device] = None] ELSE reg

\* spawn(command[0], ...) by call c, writing to device
Spawn(ps, c, device) ==
    [ps EXCEPT ![c] = [device |-> device, state |-> "alive", killed |-> FALSE]]

\* spawn of a command that cannot be started (no ffmpeg binary, no
\* permission): a ChildProcess is returned all the same, with no process
\* behind it
SpawnFails(ps, c, device) ==
    [ps EXCEPT ![c] = [device |-> device, state |-> "failed", killed |-> FALSE]]

\* the 'error' event of that ChildProcess is emitted on the next tick; it has
\* no listener, so it is thrown as an uncaught exception and ends the
\* Node.js process before any other callback runs
Uncaught == [pc |-> "uncaught", closing |-> None, idx |-> 0]

\* a set that records every process under the default device
SetProcessDefault(reg, c, device) == [reg EXCEPT ![DefaultDevice] = c]

\* this.ffmpegProcesses.set(device, ffmpeg)
SetProcess(reg, c, device) == [reg EXCEPT ![device] = c]


\* a cleanup that signals the process of the default device only
cleanupProcsDefault(reg, ps) ==
    IF reg[DefaultDevice] # None THEN Kill(ps, reg[DefaultDevice]) ELSE ps

\* WebcamManager.cleanup(): every recorded process is sent SIGTERM
cleanupProcs(reg, ps) ==
    [p \in Calls |->
        IF \E d \in Devices : reg[d] = p THEN Kill(ps, p)[p] ELSE ps[p]]

\* WebcamManager.cleanup(): this.ffmpegProcesses.clear()
cleanupReg(reg) == [d \in Devices |-> None]

\* startWebcam from the spawn on: spawn, record, then wait one second
\* (req is the record of the call so far).  spawn starts the process, or
\* returns a ChildProcess that will emit 'error', or throws: the catch of
\* startWebcam turns a throw into {success: false} before anything is
\* recorded.
SpawnAndRecord(c, reg, ps, device, req) ==
    \E outcome \in {"started", "error event", "throws"} :
        IF outcome = "throws"
        THEN /\ procs' = ps
             /\ ffmpegProcesses' = reg
             /\ hook' = hook
             /\ calls' = [calls EXCEPT ![c] =
                            [req EXCEPT !.pc = "done", !.result = "failure"]]
        ELSE /\ procs' = IF outcome = "started" THEN Spawn(ps, c, device)
                                                 ELSE SpawnFails(ps, c, device)
             /\ hook' = IF outcome = "started" THEN hook ELSE Uncaught
             /\ ffmpegProcesses' = SetProcess(reg, c, device)
             /\ calls' = [calls EXCEPT ![c] = [req EXCEPT !.pc = "sleep"]]

\* a switch without its default case: any mode but text spawns
IsSpawnModeAny(m) == m # "text"

\* the cases of the switch that build a command without waiting
IsSpawnMode(m) == m \in Modes \ {"text"}

\* start_webcam arrives with a mode among modes: startWebcam runs up to its
\* first await.  The old stream is stopped first; the text mode then waits
\* for createTextImage, an unknown mode returns a failure, every other mode
\* spawns at once.
StartWebcamWith(c, modes) ==
    /\ CanArrive(c)
    /\ \E dv \in InputDevices, m \in modes :
        LET device == DeviceOf(dv)
            ps1 == stopWebcamProcs(ffmpegProcesses, procs, device)
            reg1 == stopWebcamReg(ffmpegProcesses, device)
            req == [IdleCall EXCEPT !.tool = "start_webcam", !.device = dv,
                                    !.mode = m,
                                    !.process = ffmpegProcesses[device]]
        IN  CASE m = "text" ->
                    /\ procs' = ps1
                    /\ ffmpegProcesses' = reg1
                    /\ hook' = hook
                    /\ calls' = [calls EXCEPT ![c] = [req EXCEPT !.pc = "textimg"]]
              [] IsSpawnMode(m) ->
                    SpawnAndRecord(c, reg1, ps1, device, req)
              [] OTHER ->
                    /\ procs' = ps1
                    /\ ffmpegProcesses' = reg1
                    /\ hook' = hook
                    /\ calls' = [calls EXCEPT ![c] =
                                    [req EXCEPT !.pc = "done", !.result = "failure"]]
    /\ UNCHANGED <<browsers, browserOrder, engines, contexts>>

CallStartWebcam(c) == StartWebcamWith(c, InputModes)

\* start_webcam arrives in a run where no request asks for the text mode
CallStartNoText(c) == StartWebcamWith(c, InputModes \ {"text"})

\* a startWebcam that spawns the encoder whatever createTextImage answered
TextImageDoneSpawns(c) ==
    /\ Running
    /\ calls[c].pc = "textimg"
    /\ \E ok \in BOOLEAN :
        SpawnAndRecord(c, ffmpegProcesses, procs, DeviceOf(calls[c].device),
                       [calls[c] EXCEPT !.ext = IF ok THEN "ok" ELSE "fails"])
    /\ UNCHANGED <<browsers, browserOrder, engines, contexts>>

\* createTextImage settles: on success the encoder is spawned and recorded,
\* on failure the rejection leaves startWebcam and the handler rethrows it.
TextImageDone(c) ==
    /\ Running
    /\ calls[c].pc = "textimg"
    /\ \E ok \in BOOLEAN :
        IF ok
        THEN SpawnAndRecord(c, ffmpegProcesses, procs, DeviceOf(calls[c].device),
                            [calls[c] EXCEPT !.ext = "ok"])
        ELSE /\ calls' = [calls EXCEPT ![c].pc = "done", ![c].result = "error",
                                       ![c].ext = "fails"]
             /\ UNCHANGED <<procs, ffmpegProcesses, hook>>
    /\ UNCHANGED <<browsers, browserOrder, engines, contexts>>

\* the one second timer of startWebcam fires: success is returned
SleepDone(c) ==
    /\ Running
    /\ calls[c].pc = "sleep"
    /\ calls' = [calls EXCEPT ![c].pc = "done", ![c].result = "success"]
    /\ UNCHANGED <<browsers, browserOrder, engines, contexts, ffmpegProcesses,
                   procs, hook>>

\* stop_webcam arrives: stopWebcam is synchronous, the call returns at once
CallStopWebcam(c) ==
    /\ CanArrive(c)
    /\ \E dv \in InputDevices :
        LET device == DeviceOf(dv) IN
        /\ procs' = stopWebcamProcs(ffmpegProcesses, procs, device)
        /\ ffmpegProcesses' = stopWebcamReg(ffmpegProcesses, device)
        /\ calls' = [calls EXCEPT ![c] =
                        [IdleCall EXCEPT !.tool = "stop_webcam", !.device = dv,
                                         !.process = ffmpegProcesses[device],
                                         !.pc = "done", !.result = "success"]]
    /\ UNCHANGED <<browsers, browserOrder, engines, contexts, hook>>

\* a getStatus that asks whether the recorded process is still running
StreamingAlive(reg, ps, device) ==
    IF reg[device] # None THEN ps[reg[device]].state = "alive" ELSE FALSE

\* getStatus: streaming = process ? !process.killed : false
Streaming(reg, ps, device) ==
    IF reg[device] # None THEN ~ps[reg[device]].killed ELSE FALSE

\* getStatus: mode: streaming ? 'active' : null
StatusMode(streaming) == IF streaming THEN "active" ELSE "null"

\* webcam_status arrives: getStatus waits for checkDevice
CallStatus(c) ==
    /\ CanArrive(c)
    /\ \E dv \in InputDevices :
        calls' = [calls EXCEPT ![c] =
                    [IdleCall EXCEPT !.tool = "webcam_status", !.device = dv,
                                     !.pc = "checkDevice"]]
    /\ UNCHANGED <<browsers, browserOrder, engines, contexts, ffmpegProcesses,
                   procs, hook>>

\* checkDevice settles (the device path exists or not): getStatus reads the
\* registry and the status is returned
StatusDone(c) ==
    /\ Running
    /\ calls[c].pc = "checkDevice"
    /\ \E exists \in BOOLEAN :
        LET streaming == Streaming(ffmpegProcesses, procs, DeviceOf(calls[c].device))
        IN  calls' = [calls EXCEPT ![c].pc = "done", ![c].result = "success",
                        ![c].status = [exists |-> exists, streaming |-> streaming,
                                       mode |-> StatusMode(streaming)]]
    /\ UNCHANGED <<browsers, browserOrder, engines, contexts, ffmpegProcesses,
                   procs, hook>>

\* a capturePhoto that stops the stream of the device before it grabs
CallCaptureStops(c) ==
    /\ CanArrive(c)
    /\ \E dv \in InputDevices :
        /\ calls' = [calls EXCEPT ![c] =
                    [IdleCall EXCEPT !.tool = "capture_webcam_photo",
                                     !.device = dv, !.pc = "grab"]]
        /\ procs' = stopWebcamProcs(ffmpegProcesses, procs, DeviceOf(dv))
        /\ ffmpegProcesses' = stopWebcamReg(ffmpegProcesses, DeviceOf(dv))
    /\ UNCHANGED <<browsers, browserOrder, engines, contexts, hook>>

\* capture_webcam_photo arrives: capturePhoto starts the single-frame ffmpeg
\* command and waits for it
CallCapture(c) ==
    /\ CanArrive(c)
    /\ \E dv \in InputDevices :
        calls' = [calls EXCEPT ![c] =
                    [IdleCall EXCEPT !.tool = "capture_webcam_photo",
                                     !.device = dv, !.pc = "grab"]]
    /\ UNCHANGED <<browsers, browserOrder, engines, contexts, ffmpegProcesses,
                   procs, hook>>

\* the handler returns the WebcamResult of capturePhoto as content, the
\* photo or the text 'Failed to capture photo'; it throws in neither case
CaptureEnvelope(success) == IF success THEN "success" ELSE "failure"

\* the ffmpeg command settles: the file is read next, or the catch of
\* capturePhoto turns the error (no such device, no frame, no ffmpeg) into
\* {success: false}
GrabDone(c) ==
    /\ Running
    /\ calls[c].pc = "grab"
    /\ \E ok \in BOOLEAN :
        IF ok
        THEN calls' = [calls EXCEPT ![c].pc = "readFile", ![c].ext = "ok"]
        ELSE calls' = [calls EXCEPT ![c].pc = "done", ![c].ext = "fails",
                                    ![c].result = CaptureEnvelope(FALSE)]
    /\ UNCHANGED <<browsers, browserOrder, engines, contexts, ffmpegProcesses,
                   procs, hook>>

\* fs.readFile of the captured file settles
ReadDone(c) ==
    /\ Running
    /\ calls[c].pc = "readFile"
    /\ \E ok \in BOOLEAN :
        calls' = [calls EXCEPT ![c].pc = "done",
                               ![c].result = CaptureEnvelope(ok)]
    /\ UNCHANGED <<browsers, browserOrder, engines, contexts, ffmpegProcesses,
                   procs, hook>>

\* what v4l2-ctl --list-devices may print, line by line
Stdouts == {<<>>,
            <<"Dummy video device (platform:v4l2loopback-000):",
              "\t/dev/video20", "">>}

\* line.includes('/dev/video')
IncludesDevVideo(line) == line \in {"\t/dev/video20", "\t/dev/video21"}

\* stdout.split('\n').filter(line => line.includes('/dev/video'))
FilterDevices(stdout) == SelectSeq(stdout, IncludesDevVideo)

\* list_webcams arrives: listDevices runs v4l2-ctl and waits for it
CallListWebcams(c) ==
    /\ CanArrive(c)
    /\ calls' = [calls EXCEPT ![c] =
                    [IdleCall EXCEPT !.tool = "list_webcams", !.pc = "listDevices"]]
    /\ UNCHANGED <<browsers, browserOrder, engines, contexts, ffmpegProcesses,
                   procs, hook>>

\* a listDevices without its catch: the error of the command is thrown
ListDoneThrows(c) ==
    /\ Running
    /\ calls[c].pc = "listDevices"
    /\ \/ \E stdout \in Stdouts :
            calls' = [calls EXCEPT ![c].pc = "done", ![c].ext = "ok",
                                   ![c].devices = FilterDevices(stdout),
                                   ![c].result = "success"]
       \/ calls' = [calls EXCEPT ![c].pc = "done", ![c].ext = "fails",
                                  ![c].result = "error"]
    /\ UNCHANGED <<browsers, browserOrder, engines, contexts, ffmpegProcesses,
                   procs, hook>>

\* v4l2-ctl settles: its device lines are returned, or [] from the catch of
\* listDevices when the command fails or is not installed; the handler
\* returns the list, or 'No webcam devices found', as content
ListDone(c) ==
    /\ Running
    /\ calls[c].pc = "listDevices"
    /\ \/ \E stdout \in Stdouts :
            calls' = [calls EXCEPT ![c].pc = "done", ![c].ext = "ok",
                                   ![c].devices = FilterDevices(stdout),
                                   ![c].result = "success"]
       \/ calls' = [calls EXCEPT ![c].pc = "done", ![c].ext = "fails",
                                  ![c].devices = <<>>, ![c].result = "success"]
    /\ UNCHANGED <<browsers, browserOrder, engines, contexts, ffmpegProcesses,
                   procs, hook>>

\* the tool names of the switch of the handler
WebcamTools == {"start_webcam", "stop_webcam", "capture_webcam_photo",
                "webcam_status", "list_webcams"}

DeclaredTools == PageTools \cup WebcamTools

\* the results that leave the handler as an exception, which the protocol
\* layer answers with an error response; every other result is returned
\* as content
Thrown(result) ==
    result \in {"InvalidParams", "MethodNotFound", "error", "TimeoutError"}

\* a default case that stops the default device before it throws
CallUnknownToolStops(c) ==
    /\ CanArrive(c)
    /\ calls' = [calls EXCEPT ![c] =
                    [IdleCall EXCEPT !.tool = "no_such_tool", !.pc = "done",
                                     !.result = "MethodNotFound"]]
    /\ procs' = stopWebcamProcs(ffmpegProcesses, procs, DefaultDevice)
    /\ ffmpegProcesses' = stopWebcamReg(ffmpegProcesses, DefaultDevice)
    /\ UNCHANGED <<browsers, browserOrder, engines, contexts, hook>>

\* a tool name outside the switch arrives: McpError(MethodNotFound)
CallUnknownTool(c) ==
    /\ CanArrive(c)
    /\ calls' = [calls EXCEPT ![c] =
                    [IdleCall EXCEPT !.tool = "no_such_tool", !.pc = "done",
                                     !.result = "MethodNotFound"]]
    /\ UNCHANGED <<browsers, browserOrder, engines, contexts, ffmpegProcesses,
                   procs, hook>>

\* an encoder process exits (after the signal, by a crash or at end of input)
ProcExit(p) ==
    /\ procs[p].state = "alive"
    /\ procs' = [procs EXCEPT ![p].state = "exited"]
    /\ UNCHANGED <<calls, browsers, browserOrder, engines, contexts,
                   ffmpegProcesses, hook>>

----
(* BrowserManager *)

\* this.browsers.has(key)
Has(bs, key) == bs[key] # None

\* a getBrowser that launches chromium whatever the type
LaunchTypeChromium(type) == "chromium"

\* the switch of getBrowser: firefox, webkit, otherwise chromium
LaunchType(type) ==
    CASE type = "firefox" -> "firefox"
      [] type = "webkit" -> "webkit"
      [] OTHER -> "chromium"

\* getBrowser, entered by call c: a recorded key is answered from the map,
\* otherwise the engine is launched and the call waits for it.
\* Yields the engine and call record after the synchronous part.
getBrowserEnter(c, req) ==
    LET key == KeyOf(req.type, req.headless) IN
    IF ~Has(browsers, key)
    THEN /\ engines' = [engines EXCEPT ![c] =
                [type |-> LaunchType(req.type), headless |-> req.headless,
                 state |-> "starting"]]
         /\ calls' = [calls EXCEPT ![c] = [req EXCEPT !.pc = "launch"]]
    ELSE /\ engines' = engines
         /\ calls' = [calls EXCEPT ![c] =
                [req EXCEPT !.pc = "newContext", !.browser = browsers[key]]]

\* a handler that asks for the browser before it parses the arguments
ParseFailsAfterLaunch(c, req) ==
    /\ calls' = [calls EXCEPT ![c] =
                    [req EXCEPT !.pc = "done", !.result = "InvalidParams"]]
    /\ engines' = [engines EXCEPT ![c] =
                    [type |-> "chromium", headless |-> TRUE, state |-> "starting"]]

\* Schema.parse(args) throws a ZodError, which the handler's catch turns
\* into McpError(InvalidParams)
ParseFails(c, req) ==
    /\ calls' = [calls EXCEPT ![c] =
                    [req EXCEPT !.pc = "done", !.result = "InvalidParams"]]
    /\ engines' = engines

\* a page tool arrives: parse the arguments, then getBrowser up to its await
CallPageTool(c) ==
    /\ CanArrive(c)
    /\ \E tool \in PageTools, valid \in BOOLEAN :
        IF valid
        THEN \E cfg \in InputConfigs :
                getBrowserEnter(c, [IdleCall EXCEPT !.tool = tool,
                                        !.type = ParseBrowser(cfg[1]),
                                        !.headless = ParseHeadless(cfg[2])])
        ELSE ParseFails(c, [IdleCall EXCEPT !.tool = tool, !.valid = FALSE])
    /\ UNCHANGED <<browsers, browserOrder, contexts, ffmpegProcesses, procs, hook>>

\* request.params.arguments of the navigate_to_page requests of a run whose
\* arguments are followed field by field: an object ("" stands for an
\* absent field), or nothing at all (the protocol makes arguments optional)
InputArgs ==
    [given : {TRUE}, url : {"https://example.com", "", "example"},
     browser : {"", "opera"}, headless : {"", "yes"}, waitUntil : {"", "never"}]
    \cup {[given |-> FALSE, url |-> "", browser |-> "", headless |-> "",
            waitUntil |-> ""]}

\* the keys of NavigateSchema, in the order of its shape
SchemaFields == <<"url", "browser", "headless", "waitUntil">>

\* url: z.string().url(), a required field
UrlIssue(v) == v \notin {"https://example.com"}

\* z.enum(values).optional(): an absent field passes
EnumIssue(v, values) == v # "" /\ v \notin values

\* z.boolean().optional()
BooleanIssue(v) == v # "" /\ v \notin {"true", "false"}

\* waitUntil: z.enum(['load', 'domcontentloaded', 'networkidle'])
WaitUntilValues == {"load", "domcontentloaded", "networkidle"}

\* the message of the issue zod raises for a field, "" when it raises none
FieldIssue(f, args) ==
    CASE f = "url" ->
            IF args.url = "" THEN "Required"
            ELSE IF UrlIssue(args.url) THEN "Invalid url" ELSE ""
      [] f = "browser" ->
            IF EnumIssue(args.browser, EngineTypes) THEN "Invalid enum value" ELSE ""
      [] f = "headless" ->
            IF BooleanIssue(args.headless) THEN "Expected boolean" ELSE ""
      [] OTHER ->
            IF EnumIssue(args.waitUntil, WaitUntilValues)
            THEN "Invalid enum value" ELSE ""

\* ZodObject parsing an object: every key of the shape is parsed and the
\* issues of all of them are collected into ZodError.errors; the issues of
\* the keys from the i-th on
RECURSIVE ZodIssues(_, _)
ZodIssues(args, i) ==
    IF i > Len(SchemaFields) THEN <<>>
    ELSE (IF FieldIssue(SchemaFields[i], args) # ""
          THEN <<[path |-> SchemaFields[i],
                  message |-> FieldIssue(SchemaFields[i], args)]>>
          ELSE <<>>) \o ZodIssues(args, i + 1)

\* NavigateSchema.parse(args): arguments that are not an object raise a
\* single issue whose path is empty, an object raises the issues of its keys
ZodParse(args) ==
    IF ~args.given THEN <<[path |-> "", message |-> "Required"]>>
    ELSE ZodIssues(args, 1)

\* error.errors.map(e => `${e.path.join('.')}: ${e.message}`), the parts of
\* the message of McpError(InvalidParams)
ErrorMessage(errors) ==
    [i \in 1..Len(errors) |-> <<errors[i].path, errors[i].message>>]

\* navigate_to_page arrives with its raw arguments: parse them, then
\* getBrowser up to its await, or InvalidParams with the message built from
\* the issues
CallNavigate(c) ==
    /\ CanArrive(c)
    /\ \E args \in InputArgs :
        LET errors == ZodParse(args)
            req == [IdleCall EXCEPT !.tool = "navigate_to_page", !.args = args]
        IN  IF errors = <<>>
            THEN getBrowserEnter(c, [req EXCEPT
                                        !.type = ParseBrowser(args.browser),
                                        !.headless = ParseHeadless(args.headless)])
            ELSE /\ calls' = [calls EXCEPT ![c] =
                        [req EXCEPT !.valid = FALSE, !.pc = "done",
                                    !.result = "InvalidParams",
                                    !.message = ErrorMessage(errors)]]
                 /\ engines' = engines
    /\ UNCHANGED <<browsers, browserOrder, contexts, ffmpegProcesses, procs, hook>>

\* a page tool arrives in a run where every request leaves browser and
\* headless to their defaults
CallSameKey(c) ==
    /\ CanArriveWithin(c, MaxSameKeyCalls)
    /\ getBrowserEnter(c, [IdleCall EXCEPT !.tool = "navigate_to_page",
                                           !.type = ParseBrowser(""),
                                           !.headless = ParseHeadless("")])
    /\ UNCHANGED <<browsers, browserOrder, contexts, ffmpegProcesses, procs, hook>>

\* this.browsers.set(key, browser), keeping the insertion order of the Map
SetBrowser(bs, key, e) == [bs EXCEPT ![key] = e]

SetOrder(bs, order, key) == IF Has(bs, key) THEN order ELSE Append(order, key)

\* a getBrowser that records the browser although its launch failed
LaunchFailsStored(c) ==
    LET key == KeyOf(calls[c].type, calls[c].headless) IN
    /\ engines' = [engines EXCEPT ![c].state = "failed"]
    /\ calls' = [calls EXCEPT ![c].pc = "done", ![c].result = "error"]
    /\ browsers' = [browsers EXCEPT ![key] = c]
    /\ browserOrder' = IF browsers[key] # None THEN browserOrder
                        ELSE Append(browserOrder, key)

\* the awaited launch rejects: the error leaves getBrowser before set() and
\* the handler rethrows it
LaunchFails(c) ==
    /\ engines' = [engines EXCEPT ![c].state = "failed"]
    /\ calls' = [calls EXCEPT ![c].pc = "done", ![c].result = "error"]
    /\ UNCHANGED <<browsers, browserOrder>>

\* the launch awaited by call c settles: the engine is stored under the key
\* and the entry of the key is returned, or the launch error is thrown
LaunchDone(c) ==
    /\ Running
    /\ calls[c].pc = "launch"
    /\ \E ok \in BOOLEAN :
        LET key == KeyOf(calls[c].type, calls[c].headless) IN
        IF ok
        THEN /\ engines' = [engines EXCEPT ![c].state = "alive"]
             /\ browsers' = SetBrowser(browsers, key, c)
             /\ browserOrder' = SetOrder(browsers, browserOrder, key)
             /\ calls' = [calls EXCEPT ![c].pc = "newContext",
                                       ![c].browser = browsers'[key]]
        ELSE LaunchFails(c)
    /\ UNCHANGED <<contexts, ffmpegProcesses, procs, hook>>

\* a handler that works in the first context of the browser when it has one
NewContextShared(c) ==
    /\ Running
    /\ calls[c].pc = "newContext"
    /\ LET open == {x \in Calls : /\ contexts[x].state = "open"
                                  /\ contexts[x].engine = calls[c].browser}
       IN  IF engines[calls[c].browser].state # "alive"
           THEN /\ calls' = [calls EXCEPT ![c].pc = "done", ![c].result = "error"]
                /\ UNCHANGED contexts
           ELSE IF open # {}
           THEN /\ calls' = [calls EXCEPT ![c].pc = "operate",
                                ![c].context = CHOOSE x \in open : TRUE]
                /\ UNCHANGED contexts
           ELSE /\ contexts' = [contexts EXCEPT ![c] =
                        [engine |-> calls[c].browser, state |-> "open"]]
                /\ calls' = [calls EXCEPT ![c].pc = "operate", ![c].context = c]
    /\ UNCHANGED <<browsers, browserOrder, engines, ffmpegProcesses, procs, hook>>

\* browser.newContext() settles: a context of the call's own, or an error
\* when the engine is gone
NewContext(c) ==
    /\ Running
    /\ calls[c].pc = "newContext"
    /\ IF engines[calls[c].browser].state = "alive"
       THEN /\ contexts' = [contexts EXCEPT ![c] =
                    [engine |-> calls[c].browser, state |-> "open"]]
            /\ calls' = [calls EXCEPT ![c].pc = "operate", ![c].context = c]
       ELSE /\ calls' = [calls EXCEPT ![c].pc = "done", ![c].result = "error"]
            /\ UNCHANGED contexts
    /\ UNCHANGED <<browsers, browserOrder, engines, ffmpegProcesses, procs, hook>>

\* newPage, goto and the tool's page operation settle: they succeed, or one
\* of them throws (a TimeoutError, or an error because the engine is gone)
\* and the exception leaves the handler
Operate(c) ==
    /\ Running
    /\ calls[c].pc = "operate"
    /\ \E outcome \in {"ok", "timeout"} :
        CASE engines[calls[c].browser].state # "alive" ->
                calls' = [calls EXCEPT ![c].pc = "done", ![c].result = "error"]
          [] outcome = "ok" ->
                calls' = [calls EXCEPT ![c].pc = "closeContext"]
          [] OTHER ->
                calls' = [calls EXCEPT ![c].pc = "done", ![c].result = "TimeoutError"]
    /\ UNCHANGED <<browsers, browserOrder, engines, contexts, ffmpegProcesses,
                   procs, hook>>

\* a handler that closes the browser along with the context
CloseContextAndBrowser(c) ==
    /\ Running
    /\ calls[c].pc = "closeContext"
    /\ contexts' = [contexts EXCEPT ![calls[c].context].state = "closed"]
    /\ engines' = [engines EXCEPT ![calls[c].browser].state = "closed"]
    /\ calls' = [calls EXCEPT ![c].pc = "done", ![c].result = "success"]
    /\ UNCHANGED <<browsers, browserOrder, ffmpegProcesses, procs, hook>>

\* context.close() settles and the result is returned
CloseContext(c) ==
    /\ Running
    /\ calls[c].pc = "closeContext"
    /\ contexts' = [contexts EXCEPT ![calls[c].context].state = "closed"]
    /\ calls' = [calls EXCEPT ![c].pc = "done", ![c].result = "success"]
    /\ UNCHANGED <<browsers, browserOrder, engines, ffmpegProcesses, procs, hook>>

\* the engine process dies or disconnects on its own
EngineDies(e) ==
    /\ engines[e].state = "alive"
    /\ engines' = [engines EXCEPT ![e].state = "dead"]
    /\ UNCHANGED <<calls, browsers, browserOrder, contexts, ffmpegProcesses,
                   procs, hook>>

----
(* Shutdown hook *)

\* after the loop of BrowserManager.cleanup: this.browsers.clear(), then
\* webcamManager.cleanup() and process.exit(0).  Both cleanups are
\* synchronous from here on and the awaits between them resolve at once, so
\* no timer or I/O callback of a tool call runs in between.
FinishShutdown ==
    /\ browsers' = [k \in Keys |-> None]
    /\ browserOrder' = <<>>
    /\ procs' = cleanupProcs(ffmpegProcesses, procs)
    /\ ffmpegProcesses' = cleanupReg(ffmpegProcesses)
    /\ hook' = [pc |-> "exited", closing |-> None, idx |-> 0]

\* a cleanup without its loop: no browser is closed
CloseFromNoLoop(i) == FinishShutdown

\* the loop of BrowserManager.cleanup reaches entry i of the Map (entries
\* added while the loop is suspended are visited too) and calls close()
CloseFrom(i) ==
    IF i <= Len(browserOrder)
    THEN /\ hook' = [pc |-> "closing", closing |-> browsers[browserOrder[i]],
                     idx |-> i]
         /\ UNCHANGED <<browsers, browserOrder, procs, ffmpegProcesses>>
    ELSE FinishShutdown

\* SIGINT or SIGTERM is delivered (the two handlers are the same; one signal
\* per run): the hook starts
Signal ==
    /\ hook.pc = "idle"
    /\ CloseFrom(1)
    /\ UNCHANGED <<calls, engines, contexts>>

\* browser.close() awaited by the hook resolves: the loop goes on
HookCloseDone ==
    /\ hook.pc = "closing"
    /\ engines' = [engines EXCEPT ![hook.closing].state = "closed"]
    /\ CloseFrom(hook.idx + 1)
    /\ UNCHANGED <<calls, contexts>>

\* browser.close() awaited by the hook rejects: the rejection leaves the
\* hook unhandled and Node (18 or later) ends the process with an error.
\* Neither the rest of the loop nor the webcam teardown runs.
HookCloseFails ==
    /\ hook.pc = "closing"
    /\ hook' = [pc |-> "crashed", closing |-> None, idx |-> 0]
    /\ UNCHANGED <<calls, browsers, browserOrder, engines, contexts,
                   ffmpegProcesses, procs>>

Next ==
    \/ \E c \in Calls : CallPageTool(c)
    \/ \E c \in Calls : LaunchDone(c)
    \/ \E c \in Calls : NewContext(c)
    \/ \E c \in Calls : Operate(c)
    \/ \E c \in Calls : CloseContext(c)
    \/ \E c \in Calls : CallStartWebcam(c)
    \/ \E c \in Calls : TextImageDone(c)
    \/ \E c \in Calls : SleepDone(c)
    \/ \E c \in Calls : CallStopWebcam(c)
    \/ \E c \in Calls : CallStatus(c)
    \/ \E c \in Calls : StatusDone(c)
    \/ \E c \in Calls : CallCapture(c)
    \/ \E c \in Calls : GrabDone(c)
    \/ \E c \in Calls : ReadDone(c)
    \/ \E c \in Calls : CallListWebcams(c)
    \/ \E c \in Calls : ListDone(c)
    \/ \E c \in Calls : CallUnknownTool(c)
    \/ \E p \in Calls : ProcExit(p)
    \/ \E e \in Calls : EngineDies(e)
    \/ Signal
    \/ HookCloseDone
    \/ HookCloseFails

Spec == Init /\ [][Next]_vars

\* the server receiving page tool calls only
PoolNext ==
    \/ \E c \in Calls : CallPageTool(c)
    \/ \E c \in Calls : LaunchDone(c)
    \/ \E c \in Calls : NewContext(c)
    \/ \E c \in Calls : Operate(c)
    \/ \E c \in Calls : CloseContext(c)
    \/ \E c \in Calls : CallUnknownTool(c)
    \/ \E e \in Calls : EngineDies(e)
    \/ Signal
    \/ HookCloseDone
    \/ HookCloseFails

SpecPool == Init /\ [][PoolNext]_vars

\* the server receiving page tool calls that all ask for the default key
SameKeyNext ==
    \/ \E c \in Calls : CallSameKey(c)
    \/ \E c \in Calls : LaunchDone(c)
    \/ \E c \in Calls : NewContext(c)
    \/ \E c \in Calls : Operate(c)
    \/ \E c \in Calls : CloseContext(c)
    \/ \E e \in Calls : EngineDies(e)
    \/ Signal
    \/ HookCloseDone
    \/ HookCloseFails

SpecSameKey == Init /\ [][SameKeyNext]_vars

\* the server receiving navigate_to_page calls whose arguments are followed
\* field by field
ValidateNext ==
    \/ \E c \in Calls : CallNavigate(c)
    \/ \E c \in Calls : LaunchDone(c)
    \/ \E c \in Calls : NewContext(c)
    \/ \E c \in Calls : Operate(c)
    \/ \E c \in Calls : CloseContext(c)

SpecValidate == Init /\ [][ValidateNext]_vars

\* the server receiving webcam tool calls only
WebcamNext ==
    \/ \E c \in Calls : CallStartWebcam(c)
    \/ \E c \in Calls : TextImageDone(c)
    \/ \E c \in Calls : SleepDone(c)
    \/ \E c \in Calls : CallStopWebcam(c)
    \/ \E c \in Calls : CallStatus(c)
    \/ \E c \in Calls : StatusDone(c)
    \/ \E c \in Calls : CallCapture(c)
    \/ \E c \in Calls : GrabDone(c)
    \/ \E c \in Calls : ReadDone(c)
    \/ \E c \in Calls : CallListWebcams(c)
    \/ \E c \in Calls : ListDone(c)
    \/ \E c \in Calls : CallUnknownTool(c)
    \/ \E p \in Calls : ProcExit(p)
    \/ Signal

SpecWebcam == Init /\ [][WebcamNext]_vars

\* the server receiving start_webcam and stop_webcam calls, none of them
\* with the text mode
NoTextNext ==
    \/ \E c \in Calls : CallStartNoText(c)
    \/ \E c \in Calls : SleepDone(c)
    \/ \E c \in Calls : CallStopWebcam(c)
    \/ \E p \in Calls : ProcExit(p)
    \/ Signal

SpecNoText == Init /\ [][NoTextNext]_vars

\* the server receiving page, start_webcam and stop_webcam calls, with no
\* shutdown signal
FrameNext ==
    \/ \E c \in Calls : CallPageTool(c)
    \/ \E c \in Calls : LaunchDone(c)
    \/ \E c \in Calls : NewContext(c)
    \/ \E c \in Calls : Operate(c)
    \/ \E c \in Calls : CloseContext(c)
    \/ \E c \in Calls : CallStartWebcam(c)
    \/ \E c \in Calls : TextImageDone(c)
    \/ \E c \in Calls : SleepDone(c)
    \/ \E c \in Calls : CallStopWebcam(c)
    \/ \E p \in Calls : ProcExit(p)

SpecFrame == Init /\ [][FrameNext]_vars

\* the server receiving page and webcam calls while it is shut down
ShutdownNext ==
    \/ \E c \in Calls : CallPageTool(c)
    \/ \E c \in Calls : LaunchDone(c)
    \/ \E c \in Calls : NewContext(c)
    \/ \E c \in Calls : Operate(c)
    \/ \E c \in Calls : CloseContext(c)
    \/ \E c \in Calls : CallStartNoText(c)
    \/ \E c \in Calls : SleepDone(c)
    \/ Signal
    \/ HookCloseDone
    \/ HookCloseFails

\* every browser.close() the hook awaits settles, by resolving
\* (HookCloseDone) or by rejecting (HookCloseFails)
SpecShutdown ==
    /\ Init /\ [][ShutdownNext]_vars
    /\ WF_vars(HookCloseDone \/ HookCloseFails)

\* the webcam server under the scheduling of Node.js: the one second timer
\* fires and the calls to the local file system (fs.access, fs.readFile)
\* settle; the commands the server runs (convert, ffmpeg, v4l2-ctl) answer
\* if and when they do, and no timeout is passed to execAsync
SpecWebcamLive ==
    /\ SpecWebcam
    /\ \A c \in Calls :
        WF_vars(SleepDone(c)) /\ WF_vars(StatusDone(c)) /\ WF_vars(ReadDone(c))

----
(* Properties *)

AliveOn(d) == {p \in Calls : procs[p].state = "alive" /\ procs[p].device = d}

EngineKey(e) == KeyOf(engines[e].type, engines[e].headless)

\* the context is open in an engine that is alive
ContextLive(x) ==
    /\ contexts[x].state = "open"
    /\ engines[contexts[x].engine].state = "alive"

\* C1: at every reachable state at most one encoder process spawned for a
\* device is alive (spawned and not yet exited).
C1_SingleProducer == \A d \in Devices : Cardinality(AliveOn(d)) <= 1

\* C2: calls for the same key that arrive while no handle exists wait for
\* the launch in flight: two launches for one key are never in flight
\* together, so one launch serves all of them.
C2_SingleLaunch ==
    \A a, b \in Calls :
        (a # b /\ engines[a].state = "starting" /\ engines[b].state = "starting")
            => EngineKey(a) # EngineKey(b)

\* C3: once the shutdown hook has completed (process.exit(0)), no engine is
\* alive and no encoder process is alive without having been sent SIGTERM.
C3_ShutdownDrains ==
    hook.pc = "exited" =>
        /\ \A e \in Calls : engines[e].state # "alive"
        /\ \A p \in Calls : procs[p].state = "alive" => procs[p].killed

\* C4: a page tool call whose arguments violate the schema ends with
\* InvalidParams and has neither asked the pool for a browser nor launched
\* an engine, opened a context or spawned a process.
C4_ValidationFirst ==
    \A c \in Calls :
        (calls[c].tool \in PageTools /\ ~calls[c].valid) =>
            /\ calls[c].pc = "done"
            /\ calls[c].result = "InvalidParams"
            /\ calls[c].browser = None
            /\ engines[c].state = "unborn"
            /\ contexts[c].state = "unborn"
            /\ procs[c].state = "unborn"

\* an invalid page call has been answered while another call's launch is
\* in flight or done
C4_Witness ==
    \E c, b \in Calls :
        /\ calls[c].tool \in PageTools /\ ~calls[c].valid
        /\ calls[c].result = "InvalidParams"
        /\ engines[b].state # "unborn"

\* C5: when a page tool call has returned a timeout error, the context it
\* opened is closed.
C5_CleanupOnTimeout ==
    \A c \in Calls :
        (calls[c].result = "TimeoutError" /\ calls[c].context # None)
            => ~ContextLive(calls[c].context)

\* C6: stop_webcam on a device with no recorded stream signals no process,
\* leaves the registry unchanged and returns success.
C6_IdempotentStop ==
    [][\A c \in Calls :
        (/\ calls[c].pc = "idle"
         /\ calls'[c].tool = "stop_webcam"
         /\ ffmpegProcesses[DeviceOf(calls'[c].device)] = None)
        => /\ ffmpegProcesses' = ffmpegProcesses
           /\ procs' = procs
           /\ calls'[c].pc = "done"
           /\ calls'[c].result = "success"]_vars

\* a stop found no stream on its device while another device was streaming
C6_Witness ==
    \E c \in Calls :
        /\ calls[c].tool = "stop_webcam" /\ calls[c].pc = "done"
        /\ calls[c].process = None
        /\ \E d \in Devices : d # DeviceOf(calls[c].device) /\ ffmpegProcesses[d] # None

\* C7: the replacement encoder is spawned only after the process that was
\* recorded for the device when the call began has exited.
C7_StopBeforeStart ==
    [][\A c \in Calls :
        (procs[c].state = "unborn" /\ procs'[c].state = "alive"
            /\ calls'[c].process # None)
        => procs'[calls'[c].process].state = "exited"]_vars

\* C8: every encoder that is alive and has not been sent SIGTERM is the
\* process recorded in the registry for its device: no call's encoder is
\* lost by another call overwriting its entry.
C8_NoLostProducer ==
    \A p \in Calls :
        (procs[p].state = "alive" /\ ~procs[p].killed)
            => ffmpegProcesses[procs[p].device] = p

\* C9: every live engine is the one recorded in the pool under its key
\* (hence at most one live engine per key, all reachable by cleanup).
C9_PoolOwnsLiveEngines ==
    \A e \in Calls :
        engines[e].state = "alive" => browsers[EngineKey(e)] = e

\* C10: whenever getBrowser returns a handle to a call, the engine behind
\* it is alive: a dead pooled handle is replaced, never handed out.
C10_DeadHandleRecovery ==
    [][\A c \in Calls :
        (calls[c].pc # "newContext" /\ calls'[c].pc = "newContext")
            => engines'[calls'[c].browser].state = "alive"]_vars

\* C11: once the shutdown hook has started, no tool call starts new
\* external work: no engine launch and no encoder spawn begins.
C11_NoNewWorkAfterSignal ==
    [][hook.pc # "idle" =>
        \A c \in Calls :
            /\ engines[c].state = "unborn" => engines'[c].state = "unborn"
            /\ procs[c].state = "unborn" => procs'[c].state = "unborn"]_vars

\* C12: when the hook has ended, also after a close that failed, the pool
\* is empty and no pooled browser was left without a close attempt.
C12_ReleaseAllBestEffort ==
    hook.pc \in {"exited", "crashed"} => \A k \in Keys : browsers[k] = None

\* C13: when the hook has ended, also after a browser close that failed,
\* every encoder recorded in the registry has been sent SIGTERM.
C13_HookStopsEncoders ==
    hook.pc \in {"exited", "crashed"} =>
        \A d \in Devices :
            (ffmpegProcesses[d] # None /\ procs[ffmpegProcesses[d]].state = "alive")
                => procs[ffmpegProcesses[d]].killed

\* C14: an encoder that exited on its own is no longer reported: a status
\* read when the recorded process of the device has exited says
\* streaming = false.
C14_CrashStopsStream ==
    [][\A c \in Calls :
        (/\ calls[c].pc = "checkDevice" /\ calls'[c].pc = "done"
         /\ ffmpegProcesses[DeviceOf(calls[c].device)] # None
         /\ procs[ffmpegProcesses[DeviceOf(calls[c].device)]].state = "exited")
        => ~calls'[c].status.streaming]_vars

\* C15: once getBrowser has returned a handle for a key to some call, a
\* call for the same key that arrives later, before shutdown, is answered
\* at once with the identical handle and launches no engine.
C15_SequentialReuse ==
    [][\A c, b \in Calls :
        (/\ hook.pc = "idle"
         /\ calls[c].pc = "idle" /\ calls'[c].pc # "idle"
         /\ calls'[c].tool \in PageTools /\ calls'[c].valid
         /\ b # c /\ calls[b].browser # None
         /\ KeyOf(calls[b].type, calls[b].headless)
                = KeyOf(calls'[c].type, calls'[c].headless))
        => /\ calls'[c].pc = "newContext"
           /\ calls'[c].browser = calls[b].browser
           /\ engines'[c].state = "unborn"]_vars

\* C16: when the launch awaited by a call fails, the call ends with the
\* launch error, the pool is left as it was, and no call is ever handed an
\* engine whose launch failed.
C16_LaunchFailure ==
    [][/\ \A c \in Calls :
            (calls[c].pc = "launch" /\ engines'[c].state = "failed")
            => /\ calls'[c].pc = "done"
               /\ calls'[c].result = "error"
               /\ calls'[c].browser = None
               /\ browsers' = browsers
               /\ browserOrder' = browserOrder
       /\ \A b \in Calls :
            calls'[b].browser # None
                => engines'[calls'[b].browser].state # "failed"]_vars

\* a launch failed for a key and a later call launched that key afresh
C16_Witness ==
    \E c, b \in Calls :
        /\ c < b
        /\ engines[c].state = "failed" /\ calls[c].result = "error"
        /\ EngineKey(b) = EngineKey(c)
        /\ engines[b].state = "alive"
        /\ calls[b].browser = b

\* C17: a call that ends in a validation error (unknown tool, invalid page
\* arguments, start_webcam with a mode outside the set) leaves the pool,
\* the registry and the encoder processes as they were.
C17_ValidationNoSideEffects ==
    [][\A c \in Calls :
        (/\ calls[c].pc = "idle" /\ calls'[c].pc = "done"
         /\ \/ calls'[c].result \in {"InvalidParams", "MethodNotFound"}
            \/ calls'[c].tool = "start_webcam" /\ calls'[c].mode \notin Modes)
        => /\ browsers' = browsers
           /\ engines' = engines
           /\ ffmpegProcesses' = ffmpegProcesses
           /\ procs' = procs]_vars

C19_StatusReportsMode ==
    [][\A c \in Calls :
        LET p == ffmpegProcesses[DeviceOf(calls[c].device)] IN
        (/\ calls[c].pc = "checkDevice" /\ calls'[c].pc = "done"
         /\ p # None
         /\ procs[p].state = "alive" /\ ~procs[p].killed
         /\ calls[p].result = "success")
        => /\ calls'[c].status.streaming
           /\ calls'[c].status.mode = calls[p].mode]_vars

\* C20: when start_webcam returns success, the registry maps the device to
\* the process that this call spawned.
C20_SuccessMeansRecorded ==
    [][\A c \in Calls :
        (calls[c].pc = "sleep" /\ calls'[c].pc = "done"
            /\ calls'[c].result = "success")
        => ffmpegProcesses'[DeviceOf(calls[c].device)] = c]_vars

\* C21: stop_webcam on a device with a recorded stream sends SIGTERM to that
\* process when it is running, removes the entry, and returns in the same
\* step without waiting for the process to exit; a status computed from the
\* registry it leaves says streaming = false.
C21_StopSignalsAndForgets ==
    [][\A c \in Calls :
        (/\ calls[c].pc = "idle"
         /\ calls'[c].tool = "stop_webcam"
         /\ ffmpegProcesses[DeviceOf(calls'[c].device)] # None)
        => LET d == DeviceOf(calls'[c].device)
               p == ffmpegProcesses[d]
           IN  /\ procs[p].state = "alive" => procs'[p].killed
               /\ procs'[p].state = procs[p].state
               /\ ffmpegProcesses'[d] = None
               /\ calls'[c].pc = "done"
               /\ calls'[c].result = "success"
               /\ ~Streaming(ffmpegProcesses', procs', d)]_vars

\* a stop has returned while the process it signalled is still running
C21_Witness ==
    \E c \in Calls :
        /\ calls[c].tool = "stop_webcam" /\ calls[c].pc = "done"
        /\ calls[c].process # None
        /\ procs[calls[c].process].state = "alive"
        /\ procs[calls[c].process].killed
        /\ ffmpegProcesses[DeviceOf(calls[c].device)] = None

\* C23: a page call goes through its steps in order (handle acquired, own
\* context opened, operation, context closed, success returned), and no
\* step after the acquire changes the pool or the state of an engine.
C23_PageProtocol ==
    [][\A c \in Calls :
        (calls'[c].tool \in PageTools /\ calls'[c].pc # calls[c].pc) =>
            /\ calls'[c].pc = "newContext" =>
                    /\ calls[c].pc \in {"idle", "launch"}
                    /\ calls'[c].browser # None
            /\ calls'[c].pc = "operate" =>
                    /\ calls[c].pc = "newContext"
                    /\ contexts[calls'[c].context].state = "unborn"
                    /\ contexts'[calls'[c].context].state = "open"
            /\ calls'[c].pc = "closeContext" => calls[c].pc = "operate"
            /\ calls'[c].result = "success" =>
                    /\ calls[c].pc = "closeContext"
                    /\ contexts'[calls[c].context].state = "closed"
            /\ calls[c].pc \in {"newContext", "operate", "closeContext"} =>
                    /\ calls'[c].browser = calls[c].browser
                    /\ browsers' = browsers
                    /\ browserOrder' = browserOrder
                    /\ engines' = engines]_vars

\* a page call has returned success and the handle it used is still pooled
\* and alive
C23_Witness ==
    \E c \in Calls :
        /\ calls[c].tool \in PageTools /\ calls[c].result = "success"
        /\ contexts[calls[c].context].state = "closed"
        /\ browsers[KeyOf(calls[c].type, calls[c].headless)] = calls[c].browser
        /\ engines[calls[c].browser].state = "alive"

\* C24: the context a page call works in was created by that call in the
\* browser it was handed, and no two calls work in the same context.
C24_PerCallContext ==
    \A a \in Calls :
        calls[a].context # None =>
            /\ calls[a].context = a
            /\ contexts[calls[a].context].engine = calls[a].browser
            /\ \A b \in Calls : b # a => calls[b].context # calls[a].context

\* two calls operate at the same time in the same browser, each in its own
\* open context
C24_Witness ==
    \E a, b \in Calls :
        /\ a # b
        /\ calls[a].pc = "operate" /\ calls[b].pc = "operate"
        /\ calls[a].browser = calls[b].browser
        /\ contexts[calls[a].context].state = "open"
        /\ contexts[calls[b].context].state = "open"

\* C25: when the spawn of the encoder fails, the server stays up to answer
\* the call, the call does not report success, and the failed process is
\* not recorded in the registry.
C25_SpawnFailureReported ==
    \A c \in Calls :
        procs[c].state = "failed" =>
            /\ hook.pc # "uncaught"
            /\ calls[c].result # "success"
            /\ \A d \in Devices : ffmpegProcesses[d] # c

\* C26: a capture_webcam_photo call that did not capture a photo is
\* answered with an error response, not with a result returned as content.
C26_CaptureFailureIsError ==
    \A c \in Calls :
        (/\ calls[c].tool = "capture_webcam_photo" /\ calls[c].pc = "done"
         /\ calls[c].result # "success")
        => Thrown(calls[c].result)

\* C27: a call of a tool name outside the declared set ends at once with
\* MethodNotFound and leaves the pool, the engines, the contexts, the
\* registry and the encoder processes as they were.
C27_UnknownTool ==
    [][\A c \in Calls :
        (/\ calls[c].pc = "idle" /\ calls'[c].pc # "idle"
         /\ calls'[c].tool \notin DeclaredTools)
        => /\ calls'[c].pc = "done"
           /\ calls'[c].result = "MethodNotFound"
           /\ browsers' = browsers
           /\ browserOrder' = browserOrder
           /\ engines' = engines
           /\ contexts' = contexts
           /\ ffmpegProcesses' = ffmpegProcesses
           /\ procs' = procs]_vars

\* an unknown tool was refused while a browser was pooled and an encoder
\* was recorded and running on the default device
C27_Witness ==
    \E c \in Calls :
        /\ calls[c].tool \notin DeclaredTools /\ calls[c].pc = "done"
        /\ calls[c].result = "MethodNotFound"
        /\ ffmpegProcesses[DefaultDevice] # None
        /\ procs[ffmpegProcesses[DefaultDevice]].state = "alive"
        /\ ~procs[ffmpegProcesses[DefaultDevice]].killed

\* C28: the streaming flag of a status is true exactly when the registry
\* has a process recorded for the device at the time the status is
\* computed, whether or not that process is still running.
C28_StreamingIsBookkeeping ==
    [][\A c \in Calls :
        (calls[c].pc = "checkDevice" /\ calls'[c].pc = "done")
        => calls'[c].status.streaming
              = (ffmpegProcesses[DeviceOf(calls[c].device)] # None)]_vars

\* a status said streaming = true and exists = false for a device whose
\* recorded process has exited
C28_Witness ==
    \E c \in Calls :
        /\ calls[c].tool = "webcam_status" /\ calls[c].pc = "done"
        /\ calls[c].status.streaming /\ ~calls[c].status.exists
        /\ ffmpegProcesses[DeviceOf(calls[c].device)] # None
        /\ procs[ffmpegProcesses[DeviceOf(calls[c].device)]].state = "exited"

\* C29: a list_webcams call that has returned has returned success; when
\* the enumeration command failed the list is empty, and otherwise it holds
\* the device lines of the output only.
C29_ListNeverFails ==
    \A c \in Calls :
        (calls[c].tool = "list_webcams" /\ calls[c].pc = "done") =>
            /\ calls[c].result = "success"
            /\ calls[c].ext = "fails" => calls[c].devices = <<>>
            /\ \A i \in 1..Len(calls[c].devices) :
                    IncludesDevVideo(calls[c].devices[i])

\* the enumeration command failed and list_webcams returned an empty list
C29_Witness ==
    \E c \in Calls :
        /\ calls[c].tool = "list_webcams" /\ calls[c].pc = "done"
        /\ calls[c].ext = "fails"
        /\ calls[c].devices = <<>>
        /\ calls[c].result = "success"

\* C22: every tool call that was dispatched returns while the server runs:
\* no call waits for ever on an external command that does not answer.
C22_EveryCallReturns ==
    \A c \in Calls :
        (calls[c].pc # "idle") ~> (calls[c].pc = "done" \/ ~Running)

\* C30: the fields named in the InvalidParams message of a call are exactly
\* the fields that violate the schema in its arguments (a required field
\* that is missing, a field with a value outside its type or its set).
C30_EveryViolatedFieldNamed ==
    \A c \in Calls :
        (/\ calls[c].tool \in PageTools /\ calls[c].result = "InvalidParams"
         /\ calls[c].message # <<>>)
        => {calls[c].message[i][1] : i \in 1..Len(calls[c].message)}
                = {f \in {"url", "browser", "headless", "waitUntil"} :
                        \/ f = "url" /\ UrlIssue(calls[c].args.url)
                        \/ f = "browser" /\ EnumIssue(calls[c].args.browser, EngineTypes)
                        \/ f = "headless" /\ BooleanIssue(calls[c].args.headless)
                        \/ f = "waitUntil"
                              /\ EnumIssue(calls[c].args.waitUntil, WaitUntilValues)}

\* C31: when WebcamManager.cleanup has run, the registry is empty and every
\* process that was recorded and running has been sent SIGTERM, whatever
\* the number of recorded devices.
C31_StopAll ==
    [][(hook.pc # "exited" /\ hook'.pc = "exited") =>
        \A d \in Devices :
            /\ ffmpegProcesses'[d] = None
            /\ (ffmpegProcesses[d] # None
                    /\ procs[ffmpegProcesses[d]].state = "alive")
                => procs'[ffmpegProcesses[d]].killed]_vars

\* the cleanup found an encoder recorded and running on each of two devices
C31_Witness ==
    /\ hook.pc = "exited"
    /\ \E p, q \in Calls :
        /\ procs[p].device # procs[q].device
        /\ procs[p].state = "alive" /\ procs[p].killed
        /\ procs[q].state = "alive" /\ procs[q].killed
        /\ calls[p].process = None /\ calls[q].process = None

\* C32: a start_webcam in text mode spawns its encoder only in the step in
\* which createTextImage has succeeded; when createTextImage fails that
\* step spawns and records nothing, and the call never has an encoder nor
\* an entry of its own.
C32_TextImageFirst ==
    [][\A c \in Calls :
        (calls'[c].tool = "start_webcam" /\ calls'[c].mode = "text") =>
            /\ (procs[c].state = "unborn" /\ procs'[c].state # "unborn")
                => calls[c].pc = "textimg" /\ calls'[c].ext = "ok"
            /\ (calls[c].pc = "textimg" /\ calls'[c].ext = "fails")
                => /\ procs' = procs
                   /\ ffmpegProcesses' = ffmpegProcesses
                   /\ calls'[c].pc = "done"
                   /\ calls'[c].result = "error"
            /\ calls'[c].ext = "fails"
                => /\ procs'[c].state = "unborn"
                   /\ \A d \in Devices : ffmpegProcesses'[d] # c]_vars

\* a text start failed at createTextImage and has returned its error
C32_Witness ==
    \E c \in Calls :
        /\ calls[c].tool = "start_webcam" /\ calls[c].mode = "text"
        /\ calls[c].ext = "fails" /\ calls[c].pc = "done"
        /\ procs[c].state = "unborn"
        /\ hook.pc = "idle"

\* C34: no step of a capture_webcam_photo, webcam_status or list_webcams
\* call changes the registry or the state of an encoder process.
C34_ReadOnlyTools ==
    [][\A c \in Calls :
        (/\ calls'[c] # calls[c]
         /\ calls'[c].tool \in {"capture_webcam_photo", "webcam_status",
                                "list_webcams"})
        => ffmpegProcesses' = ffmpegProcesses /\ procs' = procs]_vars

\* a photo was captured from a device whose recorded encoder is still
\* recorded, running and unsignalled
C34_Witness ==
    \E c \in Calls :
        /\ calls[c].tool = "capture_webcam_photo" /\ calls[c].result = "success"
        /\ ffmpegProcesses[DeviceOf(calls[c].device)] # None
        /\ procs[ffmpegProcesses[DeviceOf(calls[c].device)]].state = "alive"
        /\ ~procs[ffmpegProcesses[DeviceOf(calls[c].device)]].killed

\* C35: the engine stored in the pool under a key was launched with the
\* type and the headless flag of that key, and two calls whose validated
\* (type, headless) differ are never handed the same engine.
C35_KeyFidelity ==
    /\ \A t \in EngineTypes, h \in BOOLEAN :
        browsers[KeyOf(t, h)] # None =>
            /\ engines[browsers[KeyOf(t, h)]].type = t
            /\ engines[browsers[KeyOf(t, h)]].headless = h
    /\ \A a, b \in Calls :
        (/\ calls[a].browser # None /\ calls[b].browser # None
         /\ <<calls[a].type, calls[a].headless>> # <<calls[b].type, calls[b].headless>>)
        => calls[a].browser # calls[b].browser

\* a firefox engine and a headed chromium engine are pooled side by side,
\* or either with the default engine, each handed to the call that asked
C35_Witness ==
    \E a, b \in Calls :
        /\ calls[a].browser = a /\ calls[b].browser = b
        /\ calls[a].type # "chromium" /\ engines[a].type = calls[a].type
        /\ engines[a].state = "alive" /\ engines[b].state = "alive"
        /\ browsers[KeyOf(calls[a].type, calls[a].headless)] = a
        /\ browsers[KeyOf(calls[b].type, calls[b].headless)] = b
        /\ a # b

\* C36: a start_webcam signals and unregisters the stream recorded for its
\* device as its first step, and when a start_webcam returns a failure or
\* an error the registry has no entry for its device.
C36_FailedStartLeavesNoEntry ==
    [][\A c \in Calls :
        /\ (calls[c].pc = "idle" /\ calls'[c].tool = "start_webcam") =>
            LET d == DeviceOf(calls'[c].device)
                p == ffmpegProcesses[d]
            IN  p # None => /\ procs[p].state = "alive" => procs'[p].killed
                            /\ ffmpegProcesses'[d] # p
        /\ (/\ calls'[c].tool = "start_webcam"
            /\ calls[c].pc # "done" /\ calls'[c].pc = "done"
            /\ calls'[c].result \in {"failure", "error"})
           => ffmpegProcesses'[DeviceOf(calls'[c].device)] = None]_vars

\* C37: when no request uses the text mode, every encoder that is running
\* and unsignalled is recorded in the registry, under its own device and
\* under no other.
C37_NoUntrackedWithoutText ==
    \A p \in Calls :
        (procs[p].state = "alive" /\ ~procs[p].killed)
            => {d \in Devices : ffmpegProcesses[d] = p} = {procs[p].device}

\* a start replaced a running encoder on the second device: the old one is
\* signalled and still running, the new one is recorded
C37_Witness ==
    \E p, q \in Calls :
        /\ procs[p].device = "/dev/video21" /\ procs[q].device = "/dev/video21"
        /\ procs[p].state = "alive" /\ procs[p].killed
        /\ procs[q].state = "alive" /\ ~procs[q].killed
        /\ ffmpegProcesses["/dev/video21"] = q

\* C33: a step of a start_webcam or stop_webcam call on a device leaves the
\* registry entry and the processes of every other device as they were,
\* and a step of a page call for a key leaves the pool entry and the
\* engines of every other key as they were.
C33_FrameByDeviceAndKey ==
    [][\A c \in Calls :
        calls'[c] # calls[c] =>
            /\ calls'[c].tool \in {"start_webcam", "stop_webcam"} =>
                \A d \in Devices \ {DeviceOf(calls'[c].device)} :
                    /\ ffmpegProcesses'[d] = ffmpegProcesses[d]
                    /\ \A p \in Calls :
                        procs[p].device = d => procs'[p] = procs[p]
            /\ (calls'[c].tool \in PageTools /\ calls'[c].valid) =>
                \A k \in Keys \ {KeyOf(calls'[c].type, calls'[c].headless)} :
                    /\ browsers'[k] = browsers[k]
                    /\ \A e \in Calls :
                        (engines[e].state # "unborn" /\ EngineKey(e) = k)
                            => engines'[e] = engines[e]
                    /\ \A e \in Calls :
                        (engines[e].state = "unborn" /\ engines'[e].state # "unborn")
                            => KeyOf(engines'[e].type, engines'[e].headless) # k]_vars

\* an encoder runs on each device and an engine is pooled under each of two
\* keys, every one of them the work of a different call
C33_Witness ==
    \/ \E p, q \in Calls :
        /\ p < q
        /\ ffmpegProcesses["/dev/video20"] = p /\ ffmpegProcesses["/dev/video21"] = q
        /\ procs[p].state = "alive" /\ ~procs[p].killed
        /\ procs[q].state = "alive" /\ ~procs[q].killed
        /\ calls[p].result = "success" /\ calls[q].result = "success"
    \/ \E a, b \in Calls :
        /\ a < b
        /\ engines[a].state = "alive" /\ engines[b].state = "alive"
        /\ EngineKey(a) # EngineKey(b)
        /\ browsers[EngineKey(a)] = a /\ browsers[EngineKey(b)] = b
        /\ calls[a].result = "success" /\ calls[b].result = "success"

\* C38: the hook signals no encoder and empties no registry while it is
\* closing browsers; it exits only from the end of the loop over the pool,
\* in the step that also empties the pool and the registry; and once the
\* hook is closing browsers, the process ends, with exit code 0 unless a
\* close was rejected or an exception went uncaught.
C38_ShutdownOrder ==
    /\ [][hook' # hook =>
            /\ hook'.pc = "closing" =>
                    procs' = procs /\ ffmpegProcesses' = ffmpegProcesses
            /\ hook'.pc = "exited" =>
                    /\ \/ hook.pc = "idle" /\ browserOrder = <<>>
                       \/ hook.pc = "closing" /\ hook.idx = Len(browserOrder)
                    /\ \A k \in Keys : browsers'[k] = None
                    /\ \A d \in Devices : ffmpegProcesses'[d] = None]_vars
    /\ (hook.pc = "closing") ~> (hook.pc \in {"exited", "crashed", "uncaught"})

\* the hook has closed two pooled browsers, or one and signalled a running
\* encoder, and the process has exited
C38_Witness ==
    /\ hook.pc = "exited"
    /\ \E e \in Calls : engines[e].state = "closed"
    /\ \/ \E p \in Calls : procs[p].state = "alive" /\ procs[p].killed
                            /\ calls[p].process = None
       \/ \E e, f \in Calls : e # f /\ engines[e].state = "closed"
                               /\ engines[f].state = "closed"

====
